---- MODULE Spec2Model ----
(***************************************************************************)
(* SQL Fight Club: the admission filter (app/utils/sql_safety.py), the     *)
(* complexity scorer (app/core/scoring.py), the turn loop of               *)
(* FightManager.run_fight (app/core/fight_manager.py) with the scoreboard  *)
(* of app/ui/streamlit_app.py, and the FightManager of                     *)
(* sql_fight_manager.py, which adds up scores and declares a winner.       *)
(*                                                                         *)
(* A Python str is a sequence of one-character strings, so that the regex  *)
(* match, str.lower, the `in` test and str.count are computed character by *)
(* character.  Opaque strings that the code only passes along (error       *)
(* messages, agent names, prompts) are sequences of one chunk.  Python's   *)
(* None is the sequence None, which is no text.                            *)
(* Scores are floats with at most two decimals: the model holds them in    *)
(* hundredths (2.2 is 220).                                                *)
(***************************************************************************)
EXTENDS Integers, Sequences, FiniteSets, TLC

VARIABLES
    \* ---- the text functions (specification SpecText)
    sql,          \* the argument handed to is_select_only / complexity_score
    nfrags,       \* how many fragments the caller has appended to sql
    admitted,     \* what the last is_select_only(sql) returned, or Unset
    score,        \* what the last complexity_score call returned, or Unset
    scored,       \* the text that call was given, or None
    \* ---- FightManager (specification Spec)
    rounds,       \* self.rounds
    turns,        \* self.turns
    schema_description,  \* self.schema_description
    pc,           \* where run_fight is: "idle" before the first call, "running"
                  \* in the loop, "returned", or the exception it raised
    mode,         \* run_fight's arguments
    human_sqls,
    theme,
    difficulty,
    on_progress,  \* TRUE when a callback was passed
    round_num,    \* run_fight's locals
    current_agent,
    human_turn_index,
    previous_query,
    previous_result_summary,
    challenge,
    returned,     \* Ret(the list run_fight returned), or Unset
    first_turn,   \* len(self.turns) when the running call was entered
    ncalls,       \* how many times run_fight was called on this manager
    nreturned,    \* how many of these calls returned
    agent_calls,  \* the generate_sql calls this run_fight made, with arguments
    executed,     \* what this run_fight passed to conn.execute, with the outcome
    progress,     \* the on_progress calls this run_fight made
    \* ---- the database
    catalog,      \* information_schema.columns of schema main, in its order
    \* ---- the score-aggregating FightManager of sql_fight_manager.py
    \*      (specification SpecAgg)
    num_rounds,   \* self.num_rounds
    state,        \* self.state, a FightState
    previous_a_query,    \* run_fight's locals
    previous_b_query,
    previous_a_summary,
    previous_b_summary,
    agg_pc,       \* where run_fight is: "idle", "turn_a", "turn_b" (the turn
                  \* about to be played in round state.current_round), "returned"
    fight_result, \* Ret(the FightResult run_fight returned), or Unset
    nfights,      \* how many times run_fight was called on this manager
    generate_calls  \* the generate_query calls made so far, with arguments

textVars == <<sql, nfrags, admitted, score, scored>>

managerVars == <<rounds, turns, schema_description>>

callVars == <<pc, mode, human_sqls, theme, difficulty, on_progress, returned,
              first_turn, ncalls, nreturned>>

localVars == <<round_num, current_agent, human_turn_index, previous_query,
               previous_result_summary, challenge>>

observedVars == <<agent_calls, executed, progress>>

fightVars == <<managerVars, callVars, localVars, observedVars>>

dbVars == <<catalog>>

aggVars == <<num_rounds, state, previous_a_query, previous_b_query,
             previous_a_summary, previous_b_summary, agg_pc, fight_result,
             nfights, generate_calls>>

vars == <<textVars, fightVars, dbVars, aggVars>>

----------------------------------------------------------------------------
(* Bounds of the model *)

\* The caller appends at most MaxFrags fragments to the text it starts from.
MaxFrags == 2

\* A FightManager is built with rounds in 1..MaxRounds.
MaxRounds == 4

\* run_fight is called at most MaxCalls times on one manager, and only while
\* its calls, this one included, ask for at most MaxTurns rounds together.
MaxCalls == 2

\* The score-aggregating FightManager is built with num_rounds in
\* 0..MaxAggRounds, and run_fight is called on it only while its calls, this
\* one included, play at most MaxAggRounds rounds together.
MaxAggRounds == 2

MaxTurns == 4

----------------------------------------------------------------------------
(* Python values *)

None == <<"None">>

\* None where the code expects a list (human_sqls, rows_preview)
NoneList == <<None>>

\* A call that has not returned yet holds Unset, a returned value v is Ret(v).
Unset == <<>>

Ret(v) == <<v>>

AsciiUpper ==
    <<"A", "B", "C", "D", "E", "F", "G", "H", "I", "J", "K", "L", "M", "N", "O", "P",
      "Q", "R", "S", "T", "U", "V", "W", "X", "Y", "Z">>

AsciiLower ==
    <<"a", "b", "c", "d", "e", "f", "g", "h", "i", "j", "k", "l", "m", "n", "o", "p",
      "q", "r", "s", "t", "u", "v", "w", "x", "y", "z">>

Digits == {"0", "1", "2", "3", "4", "5", "6", "7", "8", "9"}

UpperSet == {AsciiUpper[i] : i \in 1..26}

LowerSet == {AsciiLower[i] : i \in 1..26}

\* str.lower on one character
ToLower == [c \in UpperSet |-> AsciiLower[CHOOSE i \in 1..26 : AsciiUpper[i] = c]]

lower_char(c) == IF c \in UpperSet THEN ToLower[c] ELSE c

\* str.lower
lower(s) == [i \in 1..Len(s) |-> lower_char(s[i])]

\* the regex class \s
IsSpace(c) == c \in {" ", "\t", "\n", "\r", "\f"}

\* the regex class \w
IsWordChar(c) == c \in UpperSet \cup LowerSet \cup Digits \cup {"_"}

\* `p in s` at position i (1-based): s[i .. i+len(p)-1] == p
MatchesAt(s, p, i) ==
    /\ i >= 1
    /\ i + Len(p) - 1 <= Len(s)
    /\ \A j \in 1..Len(p) : s[i + j - 1] = p[j]

\* the `in` operator on str
Contains(s, p) == \E i \in 1..(Len(s) - Len(p) + 1) : MatchesAt(s, p, i)

RECURSIVE FindFrom(_, _, _)
\* str.find(p, start): the least match position >= i, or 0 when there is none
FindFrom(s, p, i) ==
    IF i + Len(p) - 1 > Len(s) THEN 0
    ELSE IF MatchesAt(s, p, i) THEN i
    ELSE FindFrom(s, p, i + 1)

RECURSIVE CountFrom(_, _, _)
\* str.count(p): occurrences found left to right, each search resuming after
\* the end of the previous match (non-overlapping)
CountFrom(s, p, i) ==
    LET k == FindFrom(s, p, i)
    IN  IF k = 0 THEN 0 ELSE 1 + CountFrom(s, p, k + Len(p))

\* mutant: a membership test where the code counts
count_as_flag(s, p) == IF Contains(s, p) THEN 1 ELSE 0

count(s, p) == CountFrom(s, p, 1)

----------------------------------------------------------------------------
(* app/utils/sql_safety.py *)

pat_select ==
    <<"s", "e", "l", "e", "c", "t">>

\* mutant: the pattern without its word boundary, ^\s*select
SELECT_ONLY_PATTERN_no_boundary(s) ==
    \E k \in 0..Len(s) :
        /\ \A i \in 1..k : IsSpace(s[i])
        /\ k + Len(pat_select) <= Len(s)
        /\ \A j \in 1..Len(pat_select) : lower_char(s[k + j]) = pat_select[j]

\* mutant: the pattern without its leading \s*, ^select\b
SELECT_ONLY_PATTERN_no_space(s) ==
    /\ Len(pat_select) <= Len(s)
    /\ \A j \in 1..Len(pat_select) : lower_char(s[j]) = pat_select[j]
    /\ \/ Len(pat_select) = Len(s)
       \/ ~IsWordChar(s[Len(pat_select) + 1])

\* SELECT_ONLY_PATTERN.match(s):  ^\s*select\b  with re.IGNORECASE.
\* k is the number of characters \s* consumes.
SELECT_ONLY_PATTERN(s) ==
    \E k \in 0..Len(s) :
        /\ \A i \in 1..k : IsSpace(s[i])
        /\ k + Len(pat_select) <= Len(s)
        /\ \A j \in 1..Len(pat_select) : lower_char(s[k + j]) = pat_select[j]
        /\ \/ k + Len(pat_select) = Len(s)
           \/ ~IsWordChar(s[k + Len(pat_select) + 1])

kw_insert ==
    <<"i", "n", "s", "e", "r", "t">>

kw_update ==
    <<"u", "p", "d", "a", "t", "e">>

kw_delete ==
    <<"d", "e", "l", "e", "t", "e">>

kw_drop ==
    <<"d", "r", "o", "p">>

kw_alter ==
    <<"a", "l", "t", "e", "r">>

kw_truncate ==
    <<"t", "r", "u", "n", "c", "a", "t", "e">>

kw_create_table ==
    <<"c", "r", "e", "a", "t", "e", " ", "t", "a", "b", "l", "e">>

kw_create_schema ==
    <<"c", "r", "e", "a", "t", "e", " ", "s", "c", "h", "e", "m", "a">>

kw_attach ==
    <<"a", "t", "t", "a", "c", "h">>

kw_copy ==
    <<"c", "o", "p", "y">>

kw_pragma ==
    <<"p", "r", "a", "g", "m", "a">>

FORBIDDEN_KEYWORDS ==
    <<kw_insert, kw_update, kw_delete, kw_drop, kw_alter, kw_truncate,
      kw_create_table, kw_create_schema, kw_attach, kw_copy, kw_pragma>>

\* `sql or ""`
OrEmpty(s) == IF s = None THEN <<>> ELSE s

\* mutant: the keywords looked up in sql itself, not in sql.lower()
is_select_only_case_sensitive(s) ==
    IF ~SELECT_ONLY_PATTERN(OrEmpty(s))
    THEN FALSE
    ELSE ~\E n \in 1..Len(FORBIDDEN_KEYWORDS) : Contains(s, FORBIDDEN_KEYWORDS[n])

is_select_only(s) ==
    IF ~SELECT_ONLY_PATTERN(OrEmpty(s))
    THEN FALSE
    ELSE LET lowered == lower(s)
         IN  ~\E n \in 1..Len(FORBIDDEN_KEYWORDS) :
                 Contains(lowered, FORBIDDEN_KEYWORDS[n])

----------------------------------------------------------------------------
(* app/core/scoring.py *)

pat_join ==
    <<" ", "j", "o", "i", "n", " ">>

pat_group_by ==
    <<" ", "g", "r", "o", "u", "p", " ", "b", "y", " ">>

pat_order_by ==
    <<" ", "o", "r", "d", "e", "r", " ", "b", "y", " ">>

pat_over ==
    <<" ", "o", "v", "e", "r", "(">>

pat_case ==
    <<" ", "c", "a", "s", "e", " ">>

pat_paren ==
    <<"(">>

\* The weights, in thousandths: 2, 1.5, 1.0, 3.0, 1.5, 0.2.
WEIGHTS ==
    <<<<pat_join, 2000>>, <<pat_group_by, 1500>>, <<pat_order_by, 1000>>,
      <<pat_over, 3000>>, <<pat_case, 1500>>, <<pat_paren, 200>>>>

\* round(x, 2): x in thousandths, the result in hundredths, ties to even
round2(x) ==
    LET q == x \div 10
        r == x % 10
    IN  IF r > 5 \/ (r = 5 /\ q % 2 = 1) THEN q + 1 ELSE q

RECURSIVE AddWeighted(_, _, _)
\* score += s.count(pattern) * weight, statement by statement
AddWeighted(s, acc, n) ==
    IF n > Len(WEIGHTS)
    THEN acc
    ELSE AddWeighted(s, acc + count(s, WEIGHTS[n][1]) * WEIGHTS[n][2], n + 1)

\* mutant: the substrings counted in sql itself, not in sql.lower()
complexity_score_no_lower(text) == round2(AddWeighted(text, 0, 1))

complexity_score(text) ==
    LET s == lower(text)
    IN  round2(AddWeighted(s, 0, 1))

----------------------------------------------------------------------------
(* The callers of the two text functions: texts are built from fragments. *)

TestSelectSql ==
    <<"S", "E", "L", "E", "C", "T", " ", "*", " ", "F", "R", "O", "M", " ", "p", "e", "o",
      "p", "l", "e">>

TestInsertSql ==
    <<"I", "N", "S", "E", "R", "T", " ", "I", "N", "T", "O", " ", "p", "e", "o", "p", "l",
      "e", " ", "V", "A", "L", "U", "E", "S", " ", "(", "1", ")">>

LeadingSpace == {<<"\n", " ", "\t">>}

Heads ==
    { <<>>,
      <<"S", "e", "L", "e", "C", "t">>,
      <<"s", "e", "l", "e", "c">>,
      TestSelectSql,
      TestInsertSql }

Fragments ==
    { <<"x">>, <<"(">>,
      <<"i", "n", "s", "e", "r", "t">>,
      <<"U", "P", "D", "A", "T", "E">>,
      <<"D", "e", "l", "e", "t", "e">>,
      <<"d", "R", "o", "P">>,
      <<"a", "l", "t", "e", "r">>,
      <<"T", "R", "U", "N", "C", "A", "T", "E">>,
      <<"c", "r", "e", "a", "t", "e", " ", "T", "A", "B", "L", "E">>,
      <<"C", "R", "E", "A", "T", "E", " ", "s", "c", "h", "e", "m", "a">>,
      <<"A", "t", "t", "a", "c", "h">>,
      <<"c", "o", "p", "y">>,
      <<"P", "R", "A", "G", "M", "A">>,
      <<" ", "j", "o", "i", "n", " ">>,
      <<"J", "O", "I", "N", " ">>,
      <<" ", "G", "R", "O", "U", "P", " ", "B", "Y", " ">>,
      <<" ", "o", "r", "d", "e", "r", " ", "b", "y", " ">>,
      <<" ", "O", "v", "e", "r", "(">>,
      <<" ", "c", "a", "s", "e", " ">> }

\* The rows of information_schema.columns for schema main, ordered by table
\* name and ordinal position: table t of two columns, and the same with one
\* more table.
BaseCatalog ==
    << <<"t", "a", "INTEGER">>, <<"t", "b", "VARCHAR">> >>

ExtraCatalog ==
    BaseCatalog \o << <<"u", "c", "INTEGER">> >>

Catalogs == {BaseCatalog, ExtraCatalog}

\* introspect_schema's loop: a header line for each new table, a line for
\* each column
RECURSIVE SchemaLines(_, _)
SchemaLines(rows, current_table) ==
    IF rows = <<>> THEN <<>>
    ELSE LET r == Head(rows)
             header == IF r[1] # current_table
                       THEN << <<"\nTABLE ", r[1], ":">> >>
                       ELSE <<>>
         IN  header \o << <<"  - ", r[2], " (", r[3], ")">> >>
             \o SchemaLines(Tail(rows), r[1])

\* "\n".join(lines)
RECURSIVE JoinLines(_)
JoinLines(lines) ==
    IF lines = <<>> THEN <<>>
    ELSE IF Len(lines) = 1 THEN Head(lines)
    ELSE Head(lines) \o <<"\n">> \o JoinLines(Tail(lines))

introspect_schema(cat) == JoinLines(SchemaLines(cat, "None"))

\* FightState(current_round=0, agent_a_score=0, agent_b_score=0, rounds=[])
NewFightState ==
    [current_round |-> 0, agent_a_score |-> 0, agent_b_score |-> 0,
     rounds |-> <<>>, winner |-> None]

\* No score-aggregating FightManager exists.
NoAgg ==
    /\ num_rounds = 0
    /\ state = NewFightState
    /\ previous_a_query = None
    /\ previous_b_query = None
    /\ previous_a_summary = None
    /\ previous_b_summary = None
    /\ agg_pc = "idle"
    /\ fight_result = Unset
    /\ nfights = 0
    /\ generate_calls = <<>>

\* No FightManager exists while the text functions are called on their own.
NoFight ==
    /\ rounds = 0
    /\ turns = <<>>
    /\ schema_description = None
    /\ pc = "idle"
    /\ mode = "ai_vs_ai"
    /\ human_sqls = NoneList
    /\ theme = None
    /\ difficulty = None
    /\ on_progress = FALSE
    /\ round_num = 0
    /\ current_agent = "agent_a"
    /\ human_turn_index = 0
    /\ previous_query = None
    /\ previous_result_summary = None
    /\ challenge = None
    /\ returned = Unset
    /\ first_turn = 0
    /\ ncalls = 0
    /\ nreturned = 0
    /\ agent_calls = <<>>
    /\ executed = <<>>
    /\ progress = <<>>

\* The first text is None, or a str: a head, or whitespace and then nothing
\* or the keyword.
InitText ==
    /\ sql \in {None} \cup Heads
                \cup {l \o h : l \in LeadingSpace,
                               h \in {<<>>, <<"S", "e", "L", "e", "C", "t">>}}
    /\ nfrags = 0
    /\ admitted = Unset
    /\ score = Unset
    /\ scored = None
    /\ NoFight
    /\ NoAgg
    /\ catalog = BaseCatalog

\* The caller extends the text once both functions have returned for it.
Compose(f) ==
    /\ sql # None
    /\ admitted # Unset
    /\ scored = sql
    /\ nfrags < MaxFrags
    /\ sql' = sql \o f
    /\ nfrags' = nfrags + 1
    /\ admitted' = Unset
    /\ UNCHANGED <<score, scored, fightVars, dbVars, aggVars>>

\* A call is_select_only(sql).
CallIsSelectOnly ==
    /\ admitted = Unset
    /\ admitted' = Ret(is_select_only(sql))
    /\ UNCHANGED <<sql, nfrags, score, scored, fightVars, dbVars, aggVars>>

\* A call complexity_score(sql), sql a str.  score and scored held the
\* previous call's result and argument until now.
CallComplexityScore ==
    /\ sql # None
    /\ admitted # Unset
    /\ scored # sql
    /\ score' = Ret(complexity_score(sql))
    /\ scored' = sql
    /\ UNCHANGED <<sql, nfrags, admitted, fightVars, dbVars, aggVars>>

NextText ==
    \/ \E f \in Fragments : Compose(f)
    \/ CallIsSelectOnly
    \/ CallComplexityScore

SpecText == InitText /\ [][NextText]_vars

----------------------------------------------------------------------------
(* app/core/fight_manager.py *)

\* settings.max_rows_preview (app/config.py)
max_rows_preview == 20

REJECTED_MESSAGE ==
    <<"Rejected: query is not SELECT-only or contains forbidden keywords.">>

theme_default ==
    <<"D", "e", "f", "a", "u", "l", "t", " ", "c", "h", "a", "o", "s">>

difficulty_default ==
    <<"C", "h", "i", "l", "l">>

name_gaming ==
    <<"g", "a", "m", "i", "n", "g">>

name_tryhard ==
    <<"t", "r", "y", "h", "a", "r", "d">>

\* str.strip
RECURSIVE StripTrailing(_)
StripTrailing(s) ==
    IF s # <<>> /\ IsSpace(s[Len(s)]) THEN StripTrailing(SubSeq(s, 1, Len(s) - 1)) ELSE s

RECURSIVE StripLeft(_)
StripLeft(s) == IF s # <<>> /\ IsSpace(Head(s)) THEN StripLeft(Tail(s)) ELSE s

strip(s) == StripTrailing(StripLeft(s))

\* Of the five named themes the model passes "gaming"; every other name
\* takes the default branch.
_theme_prompt(th) ==
    LET name == strip(lower(th))
    IN  IF name = name_gaming
        THEN <<"Make a gaming-style query about players, scores, loot drops, and ridiculous achievements.">>
        ELSE <<"Write an absurd, theatrical SQL query that surfaces the 'weirdest' things in the data.">>

\* Of the two named difficulties the model passes "tryhard".
_difficulty_prompt(df) ==
    LET name == strip(lower(df))
    IN  IF name = name_tryhard
        THEN <<"Use at least one JOIN, GROUP BY, and a CASE expression to make it more complex.">>
        ELSE <<"Keep it relatively simple but still weird. One or two joins max, no need for heavy window functions.">>

\* mutant: the difficulty fragment first
base_challenge_difficulty_first(th, df) ==
    _difficulty_prompt(df) \o <<" ">> \o _theme_prompt(th)

base_challenge(th, df) == _theme_prompt(th) \o <<" ">> \o _difficulty_prompt(df)

next_challenge(th, df) ==
    <<"Building on the previous query and result, stay in the '">> \o th
    \o <<"' theme. ">> \o _difficulty_prompt(df)
    \o <<" Make it even more outrageous and complex than before.">>

Max(a, b) == IF a >= b THEN a ELSE b

Min(a, b) == IF a <= b THEN a ELSE b

\* mutant: no minimum of one token
_estimate_tokens_no_minimum(text) == IF text = <<>> THEN 0 ELSE Len(text) \div 4

_estimate_tokens(text) == IF text = <<>> THEN 0 ELSE Max(1, Len(text) \div 4)

\* One row of a result, as the dict the preview holds for it.
Row(i) == <<"row", i>>

\* mutant: the last fetched row is left out of the preview
RowsPreview_one_short(nrows) ==
    [i \in 1..(Min(nrows, max_rows_preview) - 1) |-> Row(i)]

\* result.fetchmany(settings.max_rows_preview), each row zipped with the
\* column names: the first rows of a result of nrows rows, in result order
\* mutant: fetchall() in place of fetchmany(max_rows_preview)
RowsPreview_fetchall(nrows) == [i \in 1..nrows |-> Row(i)]

RowsPreview(nrows) == [i \in 1..Min(nrows, max_rows_preview) |-> Row(i)]

\* mutant: nothing is said of a turn without rows
_summarize_result_none_when_empty(rows_preview) ==
    IF rows_preview = <<>>
    THEN None
    ELSE <<ToString(Len(rows_preview)), " rows previewed; first row keys: ", "keys(row 1)">>

_summarize_result(rows_preview) ==
    IF rows_preview = <<>>
    THEN <<"No rows returned.">>
    ELSE <<ToString(Len(rows_preview)), " rows previewed; first row keys: ", "keys(row 1)">>

AgentName(a) == IF a = "agent_a" THEN <<"Agent A">> ELSE <<"Agent B">>

\* What the agents and the human write.
SqlPlain ==
    <<"S", "E", "L", "E", "C", "T", " ", "*", " ", "F", "R", "O", "M", " ", "t">>

SqlJoin ==
    <<"s", "e", "l", "e", "c", "t", " ", "(", "a", ")", " ", "f", "r", "o", "m", " ", "t", " ", "j", "o", "i", "n", " ", "u">>

SqlDrop ==
    <<"S", "E", "L", "E", "C", "T", " ", "1", ";", " ", "d", "r", "o", "p", " ", "t", "a", "b", "l", "e", " ", "t">>

\* a text shorter than four characters
SqlShort ==
    <<"1", ";">>

AgentTexts == {SqlPlain, SqlJoin, SqlDrop, SqlShort, <<>>}

HumanTexts == {SqlPlain, SqlDrop}

\* is_select_only(sql) and complexity_score(sql) on the texts of the fight,
\* computed once for each text
valid_of == [text \in AgentTexts \cup HumanTexts |-> is_select_only(text)]

score_of == [text \in AgentTexts \cup HumanTexts |-> complexity_score(text)]

\* What conn.execute(sql) / fetchmany does with an admitted text: a result
\* of nrows rows, or an exception with message msg.  Table t holds 5 rows,
\* which the plain query returns; the join yields no row or more rows than
\* the preview keeps, or the database refuses it.
ResultSizes(text) == IF text = SqlPlain THEN {5} ELSE {0, 21}

DbErrors == {<<"Binder Error: column not found">>}

ExecuteOutcomes(text) ==
    {[ok |-> TRUE, nrows |-> n, msg |-> None] : n \in ResultSizes(text)}
    \cup {[ok |-> FALSE, nrows |-> 0, msg |-> m] :
              m \in IF text = SqlPlain THEN {} ELSE DbErrors}

NotExecuted == [ok |-> FALSE, nrows |-> 0, msg |-> None]

\* A theme and a difficulty as the page offers them, next to the defaults.
theme_gaming ==
    <<"G", "a", "m", "i", "n", "g">>

difficulty_tryhard ==
    <<"T", "r", "y", "h", "a", "r", "d">>

Themes == {theme_default, theme_gaming}

Difficulties == {difficulty_default, difficulty_tryhard}

\* theme, difficulty and on_progress as run_fight is called with them: the
\* defaults without a callback, and a named theme with either difficulty,
\* without and with a callback
FightOptions ==
    {[theme |-> theme_default, difficulty |-> difficulty_default, on_progress |-> FALSE],
     [theme |-> theme_gaming, difficulty |-> difficulty_tryhard, on_progress |-> FALSE],
     [theme |-> theme_gaming, difficulty |-> difficulty_default, on_progress |-> TRUE]}

\* human_sqls as a caller may pass it: None, or a list of at most
\* MaxRounds // 2 + 1 texts, an admitted and a rejected one in turn
HumanList(first, n) ==
    [i \in 1..n |-> IF i % 2 = 1 THEN first
                    ELSE CHOOSE t \in HumanTexts : t # first]

HumanLists ==
    {NoneList} \cup {HumanList(t, n) : t \in HumanTexts, n \in 0..((MaxRounds \div 2) + 1)}

\* `not human_sqls`
Falsy(l) == l = NoneList \/ l = <<>>

\* The text functions are not called on their own.
NoText ==
    /\ sql = None
    /\ nfrags = 0
    /\ admitted = Unset
    /\ score = Unset
    /\ scored = None

\* FightManager.__init__ with rounds passed (1..MaxRounds) and no extra
\* table, then no call yet.
Init ==
    /\ rounds \in 1..MaxRounds
    /\ turns = <<>>
    /\ catalog = BaseCatalog
    /\ schema_description = introspect_schema(catalog)
    /\ NoAgg
    /\ pc = "idle"
    /\ mode = "ai_vs_ai"
    /\ human_sqls = NoneList
    /\ theme = theme_default
    /\ difficulty = difficulty_default
    /\ on_progress = FALSE
    /\ round_num = 0
    /\ current_agent = "agent_a"
    /\ human_turn_index = 0
    /\ previous_query = None
    /\ previous_result_summary = None
    /\ challenge = None
    /\ returned = Unset
    /\ first_turn = 0
    /\ ncalls = 0
    /\ nreturned = 0
    /\ agent_calls = <<>>
    /\ executed = <<>>
    /\ progress = <<>>
    /\ NoText

\* mutant: a list longer than rounds // 2 passes the check
bad_human_sqls_short_only(m, hs) ==
    m = "you_vs_ai" /\ (Falsy(hs) \/ Len(hs) < rounds \div 2)

\* the condition under which run_fight raises ValueError before the loop
bad_human_sqls(m, hs) ==
    m = "you_vs_ai" /\ (Falsy(hs) \/ Len(hs) # rounds \div 2)

\* run_fight up to the loop: the locals, then the check of human_sqls.
RunFight(m, hs, th, df, cb) ==
    /\ pc # "running"
    /\ ncalls < MaxCalls
    /\ (ncalls + 1) * rounds <= MaxTurns
    /\ m = "ai_vs_ai" => hs = NoneList
    /\ mode' = m
    /\ human_sqls' = hs
    /\ theme' = th
    /\ difficulty' = df
    /\ on_progress' = cb
    /\ previous_query' = None
    /\ previous_result_summary' = None
    /\ challenge' = base_challenge(th, df)
    /\ current_agent' = "agent_a"
    /\ human_turn_index' = 0
    /\ round_num' = 1
    /\ returned' = Unset
    /\ first_turn' = Len(turns)
    /\ ncalls' = ncalls + 1
    /\ nreturned' = nreturned
    /\ agent_calls' = <<>>
    /\ executed' = <<>>
    /\ progress' = <<>>
    /\ pc' = IF bad_human_sqls(m, hs) THEN "ValueError" ELSE "running"
    /\ UNCHANGED <<managerVars, textVars, dbVars, aggVars>>

\* mutant: the flag set from the filter alone
is_valid_sql_filter_only(valid, error) == valid

\* AgentTurn.is_valid_sql: valid and error is None
is_valid_sql(valid, error) == valid /\ error = None

\* mutant: the rejection message is set but the text is executed all the same
execute_if_valid_always_executes(valid, out) ==
    [executed |-> TRUE,
     error |-> IF ~valid THEN REJECTED_MESSAGE ELSE IF out.ok THEN None ELSE out.msg,
     rows_preview |-> IF valid /\ out.ok THEN RowsPreview(out.nrows) ELSE NoneList]

\* mutant: a database exception is recorded under a message of the manager's
execute_if_valid_own_message(valid, out) ==
    IF ~valid
    THEN [executed |-> FALSE, error |-> REJECTED_MESSAGE, rows_preview |-> NoneList]
    ELSE IF out.ok
    THEN [executed |-> TRUE, error |-> None, rows_preview |-> RowsPreview(out.nrows)]
    ELSE [executed |-> TRUE, error |-> <<"Query failed.">>, rows_preview |-> NoneList]

\* `if not valid: ... else: try: ... except Exception as e: ...`: whether
\* conn.execute is called, and the error and rows_preview that result; out is
\* what the database does with the text when asked
execute_if_valid(valid, out) ==
    IF ~valid
    THEN [executed |-> FALSE, error |-> REJECTED_MESSAGE, rows_preview |-> NoneList]
    ELSE IF out.ok
    THEN [executed |-> TRUE, error |-> None, rows_preview |-> RowsPreview(out.nrows)]
    ELSE [executed |-> TRUE, error |-> out.msg, rows_preview |-> NoneList]

\* mutant: the rounds are reported from 0
notify_zero_based(cb, log, n, turns_len) ==
    IF cb
    THEN Append(log, [current_round |-> n - 1, total_rounds |-> rounds,
                      turns_len |-> turns_len])
    ELSE log

\* `if on_progress is not None: on_progress(round_num, self.rounds)`: the
\* call is logged with its arguments and with len(self.turns) at that moment
notify(cb, log, n, turns_len) ==
    IF cb
    THEN Append(log, [current_round |-> n, total_rounds |-> rounds,
                      turns_len |-> turns_len])
    ELSE log

\* The loop body from is_select_only(sql) to the swap of agents, and the
\* return after the last round.  out is what the database does with sql.
CompleteTurn(text, estimated_tokens, out) ==
    LET valid == valid_of[text]
        res == execute_if_valid(valid, out)
        error == res.error
        rows_preview == res.rows_preview
        turn == [round_number |-> round_num,
                 agent_name |-> AgentName(current_agent),
                 prompt |-> challenge,
                 sql |-> text,
                 is_valid_sql |-> is_valid_sql(valid, error),
                 error |-> error,
                 rows_preview |-> rows_preview,
                 complexity_score |-> score_of[text],
                 duration_seconds |-> "perf_counter() - start_time",
                 estimated_tokens |-> estimated_tokens]
    IN  /\ executed' = IF res.executed
                       THEN Append(executed, [round_number |-> round_num,
                                              sql |-> text, out |-> out])
                       ELSE executed
        /\ turns' = Append(turns, turn)
        /\ previous_query' = text
        /\ previous_result_summary' =
               _summarize_result(IF rows_preview = NoneList THEN <<>> ELSE rows_preview)
        /\ challenge' = next_challenge(theme, difficulty)
        /\ progress' = notify(on_progress, progress, round_num, Len(turns'))
        /\ current_agent' = IF current_agent = "agent_a" THEN "agent_b" ELSE "agent_a"
        /\ round_num' = round_num + 1
        /\ IF round_num = rounds
           THEN pc' = "returned" /\ returned' = Ret(turns') /\ nreturned' = nreturned + 1
           ELSE pc' = "running" /\ returned' = returned /\ nreturned' = nreturned
        /\ UNCHANGED <<rounds, schema_description, mode, human_sqls, theme,
                       difficulty, on_progress, first_turn, ncalls, textVars,
                       dbVars, aggVars>>

IsHumanTurn == mode = "you_vs_ai" /\ current_agent = "agent_a"

\* the database is asked only when the text is admitted
OutcomesFor(text) == IF valid_of[text] THEN ExecuteOutcomes(text) ELSE {NotExecuted}

\* A round whose text is the human's: human_sqls[human_turn_index].
HumanTurn ==
    /\ pc = "running"
    /\ IsHumanTurn
    /\ human_turn_index < Len(human_sqls)
    /\ human_turn_index' = human_turn_index + 1
    /\ agent_calls' = agent_calls
    /\ \E out \in OutcomesFor(human_sqls[human_turn_index + 1]) :
           CompleteTurn(human_sqls[human_turn_index + 1], 0, out)

\* A human round with no text left: human_sqls[human_turn_index] raises.
HumanTurnIndexError ==
    /\ pc = "running"
    /\ IsHumanTurn
    /\ human_turn_index >= Len(human_sqls)
    /\ pc' = "IndexError"
    /\ UNCHANGED <<managerVars, mode, human_sqls, theme, difficulty, on_progress,
                   returned, first_turn, ncalls, nreturned, localVars, observedVars, textVars,
                   dbVars, aggVars>>

GenerateCall ==
    [agent |-> current_agent,
     schema |-> schema_description,
     previous_query |-> previous_query,
     previous_result_summary |-> previous_result_summary,
     challenge |-> challenge]

\* A round whose text current_agent.generate_sql returns.
AgentTurn(text) ==
    /\ pc = "running"
    /\ ~IsHumanTurn
    /\ agent_calls' = Append(agent_calls, GenerateCall)
    /\ human_turn_index' = human_turn_index
    /\ \E out \in OutcomesFor(text) :
           CompleteTurn(text, _estimate_tokens(text), out)

\* A round in which current_agent.generate_sql raises: nothing catches it,
\* run_fight ends with the exception.
AgentRaises ==
    /\ pc = "running"
    /\ ~IsHumanTurn
    /\ agent_calls' = Append(agent_calls, GenerateCall)
    /\ pc' = "AgentError"
    /\ UNCHANGED <<managerVars, mode, human_sqls, theme, difficulty, on_progress,
                   returned, first_turn, ncalls, nreturned, localVars, executed, progress,
                   textVars, dbVars, aggVars>>

\* Someone creates table u on the connection (a CSV loaded through the
\* connection, a statement the filter let through).
TablesChange ==
    /\ catalog = BaseCatalog
    /\ catalog' = ExtraCatalog
    /\ UNCHANGED <<textVars, fightVars, aggVars>>

Next ==
    \/ \E m \in {"ai_vs_ai", "you_vs_ai"}, hs \in HumanLists, opt \in FightOptions :
           RunFight(m, hs, opt.theme, opt.difficulty, opt.on_progress)
    \/ HumanTurn
    \/ HumanTurnIndexError
    \/ \E text \in AgentTexts : AgentTurn(text)
    \/ AgentRaises
    \/ TablesChange

Spec == Init /\ [][Next]_vars

----------------------------------------------------------------------------
(* app/ui/streamlit_app.py: the scoreboard shown for the returned turns *)

\* sum(t.complexity_score for t in turns if t.agent_name... == name)
RECURSIVE total_complexity(_, _)
total_complexity(ts, name) ==
    IF ts = <<>> THEN 0
    ELSE (IF Head(ts).agent_name = name THEN Head(ts).complexity_score ELSE 0)
         + total_complexity(Tail(ts), name)

DRAW == <<"Draw">>

\* "Overall winner" / "Overall result"
overall_winner(ts) ==
    LET total_a == total_complexity(ts, AgentName("agent_a"))
        total_b == total_complexity(ts, AgentName("agent_b"))
    IN  IF total_a > total_b THEN AgentName("agent_a")
        ELSE IF total_b > total_a THEN AgentName("agent_b")
        ELSE DRAW

----------------------------------------------------------------------------
(* sql_fight_manager.py: the FightManager that adds up scores *)

AGENT_A_NAME == <<"Agent Alpha">>

AGENT_B_NAME == <<"Agent Beta">>

TIE == <<"TIE">>

\* get_schema's loop
RECURSIVE SchemaText(_, _)
SchemaText(rows, current_table) ==
    IF rows = <<>> THEN <<>>
    ELSE LET r == Head(rows)
             header == IF r[1] # current_table THEN <<"\n", r[1], ":\n">> ELSE <<>>
         IN  header \o <<"  - ", r[2], " (", r[3], ")\n">>
             \o SchemaText(Tail(rows), r[1])

\* get_schema(): the catalog as the connection holds it now
get_schema(cat) == <<"Database Schema:\n">> \o SchemaText(cat, "None")

\* challenges.get(round_num, ...)
challenges(n) ==
    CASE n = 1 -> <<"Write a SELECT query to explore the data. Keep it simple to start.">>
      [] n = 2 -> <<"Now add some JOINs. Show off your relational skills.">>
      [] n = 3 -> <<"Time to get fancy. Use aggregations, GROUP BY, or window functions.">>
      [] n = 4 -> <<"Your opponent is getting cocky. Use CTEs or subqueries to crush them.">>
      [] n = 5 -> <<"FINAL ROUND. Go completely unhinged. Recursive CTEs? Lateral joins? Whatever it takes.">>
      [] OTHER -> <<"Write an impressive SQL query.">>

_generate_challenge(n, opponent_query) ==
    IF opponent_query # None /\ opponent_query # <<>> /\ n > 1
    THEN challenges(n) \o <<"\n\nYour opponent just wrote this:\n">> \o opponent_query
         \o <<"\n\nOne-up them.">>
    ELSE challenges(n)

\* What agent.generate_query does: it returns a text or raises.
AggTexts == {SqlPlain, SqlJoin, SqlDrop}

ProviderErrors == {<<"provider error">>}

GenerateOutcomes ==
    {[ok |-> TRUE, text |-> t, msg |-> None] : t \in AggTexts}
    \cup {[ok |-> FALSE, text |-> None, msg |-> m] : m \in ProviderErrors}

\* validate_query(query) -> (is_valid, validation_error): the admission
\* filter
validate_query(query) ==
    [is_valid |-> valid_of[query],
     validation_error |-> IF valid_of[query] THEN None ELSE <<"validation_error">>]

\* execute_query_safely(conn, query, timeout) -> (result, error): the rows,
\* or the message of the exception the database raised.  The plain query
\* returns the 5 rows of t; the join returns more rows than any preview
\* keeps, or fails.
AggExecuteOutcomes(query) ==
    IF query = SqlPlain
    THEN {[ok |-> TRUE, nrows |-> 5, msg |-> None]}
    ELSE {[ok |-> TRUE, nrows |-> 21, msg |-> None]}
         \cup {[ok |-> FALSE, nrows |-> 0, msg |-> m] : m \in DbErrors}

\* calculate_query_score(query, row_count, execution_time): the complexity
\* score of the text
calculate_query_score(query, row_count, execution_time) == score_of[query]

FightRound(round_number, agent_name, query, success, error, execution_time, result_row_count, result_preview, round_score) ==
    [round_number |-> round_number,
     agent_name |-> agent_name,
     query |-> query,
     success |-> success,
     error |-> error,
     execution_time |-> execution_time,
     result_row_count |-> result_row_count,
     result_preview |-> result_preview,
     score |-> round_score]

FightResult(total_rounds, agent_a_score, agent_b_score, winner, fight_rounds) ==
    [total_rounds |-> total_rounds,
     agent_a_score |-> agent_a_score,
     agent_b_score |-> agent_b_score,
     winner |-> winner,
     rounds |-> fight_rounds]

\* mutant: the record of a query the database refused keeps the query's score
execute_round_scores_failures(n, agent_name, gen, out) ==
    IF ~gen.ok
    THEN FightRound(n, agent_name, None, FALSE,
                    <<"Agent failed to generate query: ">> \o gen.msg,
                    "0.0", 0, NoneList, 0)
    ELSE IF ~validate_query(gen.text).is_valid
    THEN FightRound(n, agent_name, gen.text, FALSE,
                    <<"Query validation failed: ">>
                        \o validate_query(gen.text).validation_error,
                    "0.0", 0, NoneList, 0)
    ELSE FightRound(n, agent_name, gen.text, out.ok,
                    IF out.ok THEN None ELSE out.msg,
                    "time.time() - start_time", out.nrows,
                    IF out.nrows > 0 THEN [i \in 1..Min(out.nrows, 10) |-> Row(i)]
                    ELSE NoneList,
                    calculate_query_score(gen.text, out.nrows, "time.time() - start_time"))

\* execute_round, from what generate_query did (gen) and, for a validated
\* query, what the database did (out)
execute_round(n, agent_name, gen, out) ==
    IF ~gen.ok
    THEN FightRound(n, agent_name, None, FALSE,
                    <<"Agent failed to generate query: ">> \o gen.msg,
                    "0.0", 0, NoneList, 0)
    ELSE IF ~validate_query(gen.text).is_valid
    THEN FightRound(n, agent_name, gen.text, FALSE,
                    <<"Query validation failed: ">>
                        \o validate_query(gen.text).validation_error,
                    "0.0", 0, NoneList, 0)
    ELSE IF ~out.ok
    THEN FightRound(n, agent_name, gen.text, FALSE, out.msg,
                    "time.time() - start_time", 0, NoneList, 0)
    ELSE FightRound(n, agent_name, gen.text, TRUE, None,
                    "time.time() - start_time", out.nrows,
                    IF out.nrows > 0 THEN [i \in 1..Min(out.nrows, 10) |-> Row(i)]
                    ELSE NoneList,
                    calculate_query_score(gen.text, out.nrows, "time.time() - start_time"))

\* the database is asked only for a generated and validated query
AggOutcomesFor(gen) ==
    IF gen.ok /\ validate_query(gen.text).is_valid
    THEN AggExecuteOutcomes(gen.text) ELSE {NotExecuted}

\* f"Returned {result_row_count} rows in {execution_time:.2f}s"
RoundSummary(r) ==
    <<"Returned ", ToString(r.result_row_count), " rows in ", r.execution_time, "s">>

\* mutant: a tie goes to agent A
determine_winner_a_on_tie(a, b) ==
    IF a >= b THEN AGENT_A_NAME ELSE AGENT_B_NAME

\* run_fight: "Determine winner"
determine_winner(a, b) ==
    IF a > b THEN AGENT_A_NAME
    ELSE IF b > a THEN AGENT_B_NAME
    ELSE TIE

\* FightManager.__init__ with num_rounds passed, then no call yet.
InitAgg ==
    /\ num_rounds \in 0..MaxAggRounds
    /\ state = NewFightState
    /\ previous_a_query = None
    /\ previous_b_query = None
    /\ previous_a_summary = None
    /\ previous_b_summary = None
    /\ agg_pc = "idle"
    /\ fight_result = Unset
    /\ nfights = 0
    /\ generate_calls = <<>>
    /\ catalog = BaseCatalog
    /\ NoFight
    /\ NoText

\* the FightState once the loop is over, and what run_fight returns
Resolved(st) ==
    [st EXCEPT !.winner = determine_winner(st.agent_a_score, st.agent_b_score)]

ResultOf(st) ==
    FightResult(num_rounds, st.agent_a_score, st.agent_b_score, st.winner, st.rounds)

\* run_fight up to agent A's first turn; with num_rounds = 0 the loop body
\* never runs and run_fight returns at once.
AggRunFight ==
    /\ agg_pc \in {"idle", "returned"}
    /\ nfights < MaxCalls
    /\ (nfights + 1) * num_rounds <= MaxAggRounds
    /\ nfights' = nfights + 1
    /\ previous_a_query' = None
    /\ previous_b_query' = None
    /\ previous_a_summary' = None
    /\ previous_b_summary' = None
    /\ generate_calls' = <<>>
    /\ IF num_rounds = 0
       THEN /\ state' = Resolved(state)
            /\ fight_result' = Ret(ResultOf(state'))
            /\ agg_pc' = "returned"
       ELSE /\ state' = [state EXCEPT !.current_round = 1]
            /\ fight_result' = Unset
            /\ agg_pc' = "turn_a"
    /\ UNCHANGED <<num_rounds, textVars, fightVars, dbVars>>

GenerateQueryCall(side, challenge_text, prev_query, prev_summary) ==
    [agent |-> side,
     schema |-> get_schema(catalog),
     challenge |-> challenge_text,
     previous_query |-> prev_query,
     previous_result_summary |-> prev_summary]

\* "Agent A's turn" of the loop body
TurnA(gen, out) ==
    LET n == state.current_round
        challenge_a == _generate_challenge(n, previous_b_query)
        round_a == execute_round(n, AGENT_A_NAME, gen, out)
    IN  /\ agg_pc = "turn_a"
        /\ generate_calls' =
               Append(generate_calls,
                      GenerateQueryCall("A", challenge_a, previous_b_query,
                                        previous_b_summary))
        /\ state' = [state EXCEPT !.rounds = Append(@, round_a),
                                  !.agent_a_score = @ + round_a.score]
        /\ previous_a_query' = IF round_a.success THEN round_a.query
                               ELSE previous_a_query
        /\ previous_a_summary' = IF round_a.success THEN RoundSummary(round_a)
                                 ELSE previous_a_summary
        /\ agg_pc' = "turn_b"
        /\ UNCHANGED <<num_rounds, previous_b_query, previous_b_summary,
                       fight_result, nfights, textVars, fightVars, dbVars>>

\* "Agent B's turn" of the loop body, then the next round or, after the last
\* round, the winner and the return
TurnB(gen, out) ==
    LET n == state.current_round
        challenge_b == _generate_challenge(n, previous_a_query)
        round_b == execute_round(n, AGENT_B_NAME, gen, out)
        after == [state EXCEPT !.rounds = Append(@, round_b),
                               !.agent_b_score = @ + round_b.score]
    IN  /\ agg_pc = "turn_b"
        /\ generate_calls' =
               Append(generate_calls,
                      GenerateQueryCall("B", challenge_b, previous_a_query,
                                        previous_a_summary))
        /\ previous_b_query' = IF round_b.success THEN round_b.query
                               ELSE previous_b_query
        /\ previous_b_summary' = IF round_b.success THEN RoundSummary(round_b)
                                 ELSE previous_b_summary
        /\ IF n = num_rounds
           THEN /\ state' = Resolved(after)
                /\ fight_result' = Ret(ResultOf(state'))
                /\ agg_pc' = "returned"
           ELSE /\ state' = [after EXCEPT !.current_round = n + 1]
                /\ fight_result' = fight_result
                /\ agg_pc' = "turn_a"
        /\ UNCHANGED <<num_rounds, previous_a_query, previous_a_summary,
                       nfights, textVars, fightVars, dbVars>>

NextAgg ==
    \/ AggRunFight
    \/ \E gen \in GenerateOutcomes : \E out \in AggOutcomesFor(gen) : TurnA(gen, out)
    \/ \E gen \in GenerateOutcomes : \E out \in AggOutcomesFor(gen) : TurnB(gen, out)
    \/ TablesChange

SpecAgg == InitAgg /\ [][NextAgg]_vars

----------------------------------------------------------------------------
(* What the claims say about a text, stated without the code's helpers. *)

RECURSIVE StripLeading(_)
\* the text without its leading whitespace
StripLeading(s) ==
    IF s # <<>> /\ IsSpace(Head(s)) THEN StripLeading(Tail(s)) ELSE s

RECURSIVE FirstToken(_)
\* the longest prefix made of letters, digits and underscores
FirstToken(s) ==
    IF s # <<>> /\ IsWordChar(Head(s))
    THEN <<Head(s)>> \o FirstToken(Tail(s))
    ELSE <<>>

\* the text (None counts as empty) begins, after whitespace, with the token
\* SELECT in some letter case
BeginsWithSelect(s) ==
    LET tok == FirstToken(StripLeading(IF s = None THEN <<>> ELSE s))
    IN  /\ Len(tok) = 6
        /\ \A j \in 1..6 : tok[j] \in {pat_select[j], AsciiUpper[CHOOSE n \in 1..26 : AsciiLower[n] = pat_select[j]]}

\* an occurrence of p at position i of s, whatever the letter case in s
OccursAt(s, p, i) == \A j \in 1..Len(p) : lower_char(s[i + j - 1]) = p[j]

Occurrences(s, p) == {i \in 1..(Len(s) - Len(p) + 1) : OccursAt(s, p, i)}

Denylist ==
    {kw_insert, kw_update, kw_delete, kw_drop, kw_alter, kw_truncate,
     kw_create_table, kw_create_schema, kw_attach, kw_copy, kw_pragma}

ContainsDenylisted(s) ==
    /\ s # None
    /\ \E kw \in Denylist : Occurrences(s, kw) # {}

\* the number of occurrences of p in s, letter case ignored, as str.count
\* counts them: the most occurrences that do not overlap one another
Occurs(s, p) ==
    LET occ == Occurrences(s, p)
        Apart(S) == \A a, b \in S : a < b => b - a >= Len(p)
    IN  IF Apart(occ) THEN Cardinality(occ)
        ELSE CHOOSE n \in 0..Cardinality(occ) :
                /\ \E S \in SUBSET occ : Apart(S) /\ Cardinality(S) = n
                /\ \A S \in SUBSET occ : Apart(S) => Cardinality(S) <= n

\* the weighted sum of the claim, in hundredths
WeightedSum(s) ==
    200 * Occurs(s, pat_join) + 150 * Occurs(s, pat_group_by)
    + 100 * Occurs(s, pat_order_by) + 300 * Occurs(s, pat_over)
    + 150 * Occurs(s, pat_case) + 20 * Occurs(s, pat_paren)

OtherPatterns == {pat_group_by, pat_order_by, pat_over, pat_case, pat_paren}

----------------------------------------------------------------------------
(* Claims about the text functions, checked under SpecText *)

\* C1: every text (empty text and None included) that, after leading
\* whitespace, does not begin with the token SELECT in any letter case is
\* rejected: is_select_only returns False.
C1_RejectsNonSelect ==
    (admitted # Unset /\ ~BeginsWithSelect(sql)) => admitted = Ret(FALSE)

\* reached: a text with leading whitespace and no SELECT token was rejected
C1_Witness ==
    /\ admitted = Ret(FALSE)
    /\ sql # None /\ sql # <<>> /\ IsSpace(sql[1])
    /\ ~BeginsWithSelect(sql)
    /\ ~ContainsDenylisted(sql)

\* C2: every text that contains a denylisted substring, in any letter case
\* and at any position, is rejected, also when it begins with SELECT.
C2_RejectsDenylisted ==
    (admitted # Unset /\ ContainsDenylisted(sql)) => admitted = Ret(FALSE)

\* reached: a text beginning with SELECT that holds a denylisted substring
\* in upper case was rejected
C2_Witness ==
    /\ admitted = Ret(FALSE)
    /\ BeginsWithSelect(sql)
    /\ ContainsDenylisted(sql)
    /\ \E kw \in Denylist : \E i \in Occurrences(sql, kw) : ~MatchesAt(sql, kw, i)

\* C3: a text whose first token is SELECT and that holds no denylisted
\* substring is admitted; "SELECT * FROM people" is admitted and
\* "INSERT INTO people VALUES (1)" is rejected.
C3_AdmitsCleanSelect ==
    admitted # Unset =>
        /\ (BeginsWithSelect(sql) /\ ~ContainsDenylisted(sql)) => admitted = Ret(TRUE)
        /\ sql = TestSelectSql => admitted = Ret(TRUE)
        /\ sql = TestInsertSql => admitted = Ret(FALSE)

\* reached: an admitted text that starts with whitespace and is not the test's
C3_Witness ==
    /\ admitted = Ret(TRUE)
    /\ IsSpace(sql[1])
    /\ nfrags > 0

\* C4: the score returned for a text is the weighted sum of the occurrence
\* counts of the six substrings, letter case ignored, with two decimals; it
\* depends on nothing but the text.  (Stated of the state the call returns
\* in; score and scored keep these values until the next call.)
C4_ScoreIsWeightedSum ==
    (scored # None /\ scored = sql) => score = Ret(WeightedSum(scored))

\* reached: a scored text in which two weighted substrings occur, one of
\* them not in lower case
C4_Witness ==
    /\ scored # None
    /\ scored = sql
    /\ score # Ret(0)
    /\ \E p \in OtherPatterns : \E i \in Occurrences(scored, p) : ~MatchesAt(scored, p, i)
    /\ Occurs(scored, pat_join) > 0

\* C5: between two calls, when no occurrence count went down the score did
\* not go down, and when the count of " join " went up by one with the other
\* counts equal the score went up by exactly 2.0.
C5_Monotone ==
    [][(scored # None /\ scored' # scored) =>
          /\ (\A p \in OtherPatterns \cup {pat_join} :
                  Occurs(scored', p) >= Occurs(scored, p))
             => score'[1] >= score[1]
          /\ (/\ Occurs(scored', pat_join) = Occurs(scored, pat_join) + 1
              /\ \A p \in OtherPatterns : Occurs(scored', p) = Occurs(scored, p))
             => score'[1] = score[1] + 200]_vars

\* reached: a text scored after one more " join " was added to a text that
\* already had one and had a score with a fraction
C5_Witness ==
    /\ scored = sql
    /\ nfrags > 0
    /\ Occurs(sql, pat_join) = 2
    /\ score[1] % 100 # 0

----------------------------------------------------------------------------
(* Claims about FightManager.run_fight, checked under Spec *)

\* the records the last call of run_fight appended
FightRecords == SubSeq(turns, first_turn + 1, Len(turns))

\* the last call of run_fight is over: it returned or raised
Ended == pc \in {"returned", "ValueError", "IndexError", "AgentError"}

HumanRecord(i) == mode = "you_vs_ai" /\ i % 2 = 1

\* C6 (as claimed): a fight of N rounds in mode ai_vs_ai always produces
\* exactly N turn records, the first agent A's, no two consecutive ones of
\* the same agent.
C6_DualAgentProducesNTurns ==
    (Ended /\ mode = "ai_vs_ai") =>
        /\ Len(FightRecords) = rounds
        /\ FightRecords[1].agent_name = AgentName("agent_a")
        /\ \A i \in 1..(Len(FightRecords) - 1) :
               FightRecords[i].agent_name # FightRecords[i + 1].agent_name

\* C7: in mode you_vs_ai, a human_sqls that is missing or whose length is
\* not N // 2 makes run_fight raise ValueError before any turn: no agent is
\* called, no SQL is executed, no record is appended, no progress is reported.
C7_BadHumanListRaisesFirst ==
    (/\ ncalls > 0
     /\ mode = "you_vs_ai"
     /\ (human_sqls = NoneList \/ Len(human_sqls) # rounds \div 2)) =>
        /\ pc = "ValueError"
        /\ Len(turns) = first_turn
        /\ agent_calls = <<>>
        /\ executed = <<>>
        /\ progress = <<>>
        /\ returned = Unset

\* reached: on a manager that already holds records, a call with one text
\* too many and a callback raised ValueError
C7_Witness ==
    /\ pc = "ValueError"
    /\ human_sqls # NoneList
    /\ Len(human_sqls) = (rounds \div 2) + 1
    /\ on_progress
    /\ Len(turns) > 0

\* C8 (as claimed): in mode you_vs_ai with exactly N // 2 human texts,
\* run_fight raises nothing and completes N turns, agent A's k-th turn has
\* the k-th human text, agent A is never asked to generate and agent B is
\* asked once for each of its turns.
C8_HumanFightCompletes ==
    (/\ Ended
     /\ mode = "you_vs_ai"
     /\ human_sqls # NoneList
     /\ Len(human_sqls) = rounds \div 2) =>
        /\ pc = "returned"
        /\ Len(FightRecords) = rounds
        /\ \A i \in 1..Len(FightRecords) :
               i % 2 = 1 => FightRecords[i].sql = human_sqls[(i + 1) \div 2]
        /\ \A c \in 1..Len(agent_calls) : agent_calls[c].agent = "agent_b"
        /\ Len(agent_calls) = Cardinality({i \in 1..Len(FightRecords) : i % 2 = 0})

\* C9: a record whose error is set is not valid, and a valid record has no
\* error and a row preview that is a list, possibly empty.
C9_ValidityAndError ==
    \A i \in 1..Len(turns) :
        /\ turns[i].error # None => ~turns[i].is_valid_sql
        /\ turns[i].is_valid_sql =>
               /\ turns[i].error = None
               /\ turns[i].rows_preview # NoneList

\* reached: a list with a valid record of an empty preview, a record of a
\* text the database refused and a record of a text the filter rejected
C9_Witness ==
    /\ \E i \in 1..Len(turns) :
           turns[i].is_valid_sql /\ turns[i].rows_preview = <<>>
    /\ \E i \in 1..Len(turns) : turns[i].error \in DbErrors
    /\ \E i \in 1..Len(turns) : turns[i].error = REJECTED_MESSAGE

\* C10 (as claimed): when generate_sql raises, run_fight does not end with
\* that exception: every generate_sql call of the fight has its turn record
\* and the fight goes on.
C10_GenerationErrorCaptured ==
    /\ pc # "AgentError"
    /\ ncalls > 0 =>
           Len(agent_calls) = Cardinality({i \in 1..Len(FightRecords) : ~HumanRecord(i)})

\* C11 (as claimed): once the check of human_sqls has passed, run_fight ends
\* only by returning the turn list after exactly N turns, whatever each turn
\* does; the only exception that ends a fight is the ValueError of the check.
C11_OnlyPreflightAborts ==
    Ended =>
        \/ pc = "ValueError" /\ bad_human_sqls(mode, human_sqls)
        \/ /\ pc = "returned"
           /\ Len(turns) = first_turn + rounds
           /\ returned = Ret(turns)

\* C13: with table t of 5 rows and agents that always return
\* "SELECT * FROM t", a first fight of 2 rounds in mode ai_vs_ai returns
\* exactly 2 records, both valid, both with complexity score 0.0 and a row
\* preview of exactly 5 entries, and the scoreboard declares a draw.
C13_EndToEnd ==
    (/\ pc = "returned"
     /\ ncalls = 1
     /\ rounds = 2
     /\ mode = "ai_vs_ai"
     /\ \A i \in 1..Len(turns) : turns[i].sql = SqlPlain
     /\ \A i \in 1..Len(executed) : executed[i].out.ok /\ executed[i].out.nrows = 5) =>
        /\ Len(returned[1]) = 2
        /\ \A i \in 1..Len(returned[1]) :
               /\ returned[1][i].is_valid_sql
               /\ returned[1][i].error = None
               /\ returned[1][i].complexity_score = 0
               /\ returned[1][i].rows_preview # NoneList
               /\ Len(returned[1][i].rows_preview) = 5
        /\ overall_winner(returned[1]) = DRAW

\* reached: that fight has returned, both agents were asked once and the
\* database executed the text twice
C13_Witness ==
    /\ pc = "returned"
    /\ ncalls = 1
    /\ rounds = 2
    /\ mode = "ai_vs_ai"
    /\ Len(agent_calls) = 2
    /\ Len(executed) = 2
    /\ \A i \in 1..Len(turns) : turns[i].sql = SqlPlain
    /\ \A i \in 1..Len(executed) : executed[i].out.ok /\ executed[i].out.nrows = 5

\* the texts of the fights that the filter rejects
RejectedTexts == {t \in AgentTexts \cup HumanTexts : ~is_select_only(t)}

\* C15: when the filter rejects a turn's text the database is not asked to
\* execute it, and the turn's record has is_valid_sql False, the fixed
\* rejection message as error and no row preview.
C15_RejectedNeverExecuted ==
    /\ \A i \in 1..Len(executed) : executed[i].sql \notin RejectedTexts
    /\ Len(executed) =
           Cardinality({i \in (first_turn + 1)..Len(turns) : turns[i].sql \notin RejectedTexts})
    /\ \A i \in 1..Len(turns) :
           turns[i].sql \in RejectedTexts =>
               /\ ~turns[i].is_valid_sql
               /\ turns[i].error = REJECTED_MESSAGE
               /\ turns[i].rows_preview = NoneList

\* reached: a fight in which an agent's text and a human's text were
\* rejected and another text was executed
C15_Witness ==
    /\ pc = "returned"
    /\ mode = "you_vs_ai"
    /\ \E i, j \in (first_turn + 1)..Len(turns) :
           /\ HumanRecord(i - first_turn) /\ ~HumanRecord(j - first_turn)
           /\ turns[i].sql \in RejectedTexts
           /\ turns[j].sql \in RejectedTexts
           /\ turns[j].sql # <<>>
    /\ Len(executed) > 0

\* C16: when the database raises while executing an admitted text, the
\* exception does not leave run_fight: that turn's record has the exception's
\* message as error, is_valid_sql False and no row preview, and the loop goes
\* on to the next round (or returns, after the last round).
C16_DbErrorCaptured ==
    \A j \in 1..Len(executed) :
        ~executed[j].out.ok =>
            LET k == executed[j].round_number
            IN  /\ Len(FightRecords) >= k
                /\ FightRecords[k].round_number = k
                /\ FightRecords[k].sql = executed[j].sql
                /\ FightRecords[k].error = executed[j].out.msg
                /\ ~FightRecords[k].is_valid_sql
                /\ FightRecords[k].rows_preview = NoneList
                /\ round_num = Len(FightRecords) + 1
                /\ pc \notin {"idle", "ValueError"}
                /\ Len(FightRecords) = rounds => pc = "returned"

\* reached: the database raised in round 1 of a fight of at least two rounds
\* and again in the last round, and run_fight returned
C16_Witness ==
    /\ pc = "returned"
    /\ rounds >= 2
    /\ \E j \in 1..Len(executed) :
           ~executed[j].out.ok /\ executed[j].round_number = 1
    /\ \E j \in 1..Len(executed) :
           ~executed[j].out.ok /\ executed[j].round_number = rounds
    /\ FightRecords[1].error \in DbErrors

\* the round in which the c-th generate_sql call of a fight is made
RoundOfCall(c) == IF mode = "you_vs_ai" THEN 2 * c ELSE c

\* the summary of a record's row preview
SummaryOf(rec) ==
    IF rec.rows_preview = NoneList \/ rec.rows_preview = <<>>
    THEN <<"No rows returned.">>
    ELSE <<ToString(Len(rec.rows_preview)), " rows previewed; first row keys: ",
           "keys(row 1)">>

\* C18: the agent of a fight's first turn is called with previous_query None
\* and previous_result_summary None; the agent of every later turn k is
\* called with the text of turn k-1 and the summary of turn k-1's row preview,
\* which is 'No rows returned.' when turn k-1 was rejected, failed or
\* returned no rows.
C18_ContextThreading ==
    \A c \in 1..Len(agent_calls) :
        LET k == RoundOfCall(c)
        IN  IF k = 1
            THEN /\ agent_calls[c].previous_query = None
                 /\ agent_calls[c].previous_result_summary = None
            ELSE /\ Len(FightRecords) >= k - 1
                 /\ agent_calls[c].previous_query = FightRecords[k - 1].sql
                 /\ agent_calls[c].previous_result_summary = SummaryOf(FightRecords[k - 1])

\* reached: a fight with an agent call that followed a rejected turn and an
\* agent call that followed a turn with rows
C18_Witness ==
    /\ \E c \in 2..Len(agent_calls) :
           /\ FightRecords[RoundOfCall(c) - 1].sql \in RejectedTexts
           /\ agent_calls[c].previous_result_summary = <<"No rows returned.">>
    /\ \E c \in 2..Len(agent_calls) :
           /\ FightRecords[RoundOfCall(c) - 1].rows_preview # NoneList
           /\ FightRecords[RoundOfCall(c) - 1].rows_preview # <<>>
           /\ agent_calls[c].previous_query = SqlJoin

\* the on_progress calls of a fight that has appended n records
ProgressAfter(n) ==
    [k \in 1..n |-> [current_round |-> k, total_rounds |-> rounds,
                     turns_len |-> first_turn + k]]

\* C19: with a callback, on_progress is called once for each turn, in order,
\* with (k, N) after the k-th record of the fight was appended, so for
\* k = 1..N when run_fight returns; without one nothing is reported.  A step
\* that reports is a step that appends one record, and it leaves the manager
\* and the loop as the same step without a callback does: the next round is
\* the other agent's, in both cases.
C19_ProgressObserves ==
    /\ [](/\ on_progress => progress = ProgressAfter(Len(FightRecords))
          /\ ~on_progress => progress = <<>>
          /\ (pc = "returned" /\ on_progress) => Len(progress) = rounds)
    /\ [][(pc = "running" /\ (turns' # turns \/ progress' # progress)) =>
             /\ Len(turns') = Len(turns) + 1
             /\ SubSeq(turns', 1, Len(turns)) = turns
             /\ round_num' = round_num + 1
             /\ current_agent' # current_agent
             /\ Len(progress') = Len(progress) + (IF on_progress THEN 1 ELSE 0)]_vars

\* reached: a second fight on the same manager returned after reporting each
\* of its two rounds
C19_Witness ==
    /\ pc = "returned"
    /\ on_progress
    /\ first_turn > 0
    /\ Len(progress) = 2
    /\ progress[2].turns_len = first_turn + 2

\* C21: the prompt of a fight's first record is the theme fragment, a space
\* and the difficulty fragment; the prompt of every later record is one and
\* the same build-on text, which names the theme as it was passed and holds
\* the difficulty fragment, whatever the earlier turns did; an agent is called
\* with the prompt its turn records.
C21_ChallengeText ==
    /\ \A k \in 1..Len(FightRecords) :
           IF k = 1
           THEN FightRecords[k].prompt =
                    _theme_prompt(theme) \o <<" ">> \o _difficulty_prompt(difficulty)
           ELSE /\ FightRecords[k].prompt = FightRecords[2].prompt
                /\ FightRecords[k].prompt # FightRecords[1].prompt
                /\ Head(FightRecords[k].prompt) =
                       "Building on the previous query and result, stay in the '"
                /\ Contains(FightRecords[k].prompt, theme \o <<"' theme. ">>)
                /\ Contains(FightRecords[k].prompt, _difficulty_prompt(difficulty))
    /\ \A c \in 1..Len(agent_calls) :
           RoundOfCall(c) <= Len(FightRecords) =>
               agent_calls[c].challenge = FightRecords[RoundOfCall(c)].prompt

\* reached: a fight on the gaming theme at difficulty Tryhard whose second
\* turn was rejected and whose third turn returned rows, and whose first and
\* third prompts hold the fragments of that theme and difficulty
C21_Witness ==
    /\ theme = theme_gaming
    /\ difficulty = difficulty_tryhard
    /\ Len(FightRecords) >= 3
    /\ FightRecords[2].sql \in RejectedTexts
    /\ FightRecords[3].is_valid_sql
    /\ FightRecords[1].prompt # base_challenge(theme_default, difficulty_default)
    /\ FightRecords[3].prompt # next_challenge(theme_default, difficulty_default)
    /\ FightRecords[3].prompt # next_challenge(theme_gaming, difficulty_default)

\* C22: the record of an agent's turn has estimated_tokens 0 when its text is
\* empty and otherwise the greater of 1 and a quarter of the text's length,
\* rounded down; the record of a human's turn has estimated_tokens 0 whatever
\* the length of its text.
C22_TokenEstimate ==
    \A k \in 1..Len(FightRecords) :
        LET rec == FightRecords[k]
            quarter == Len(rec.sql) \div 4
        IN  IF HumanRecord(k)
            THEN rec.estimated_tokens = 0
            ELSE rec.estimated_tokens =
                     (IF Len(rec.sql) = 0 THEN 0
                      ELSE IF quarter < 1 THEN 1 ELSE quarter)

\* reached: a fight against a human with a human text of 15 characters, an
\* agent text of fewer than 4 characters and an empty one
C22_Witness ==
    /\ mode = "you_vs_ai"
    /\ Len(FightRecords) = 4
    /\ Len(FightRecords[1].sql) = 15
    /\ FightRecords[1].estimated_tokens = 0
    /\ FightRecords[2].sql = SqlShort
    /\ FightRecords[2].estimated_tokens = 1
    /\ FightRecords[4].sql = <<>>
    /\ ncalls = 1

\* C23: the row preview of every turn record holds at most max_rows_preview
\* (20) rows: for an admitted text whose execution returned r rows the preview
\* has min(r, 20) entries, the i-th being the i-th row of the result.
C23_PreviewCap ==
    /\ \A k \in 1..Len(FightRecords) :
           FightRecords[k].rows_preview # NoneList =>
               Len(FightRecords[k].rows_preview) <= max_rows_preview
    /\ \A j \in 1..Len(executed) :
           executed[j].out.ok =>
               LET k == executed[j].round_number
                   r == executed[j].out.nrows
                   preview == FightRecords[k].rows_preview
               IN  /\ k <= Len(FightRecords)
                   /\ FightRecords[k].sql = executed[j].sql
                   /\ Len(preview) = (IF r < max_rows_preview THEN r ELSE max_rows_preview)
                   /\ \A i \in 1..Len(preview) : preview[i] = Row(i)

\* reached: one fight in which results of 21, 5 and 0 rows were previewed as
\* 20, 5 and 0 rows
C23_Witness ==
    /\ \E j \in 1..Len(executed) :
           /\ executed[j].out.ok /\ executed[j].out.nrows = 21
           /\ Len(FightRecords[executed[j].round_number].rows_preview) = 20
           /\ FightRecords[executed[j].round_number].rows_preview[20] = Row(20)
    /\ \E j \in 1..Len(executed) :
           /\ executed[j].out.ok /\ executed[j].out.nrows = 5
           /\ Len(FightRecords[executed[j].round_number].rows_preview) = 5
    /\ \E j \in 1..Len(executed) :
           /\ executed[j].out.ok /\ executed[j].out.nrows = 0
           /\ FightRecords[executed[j].round_number].rows_preview = <<>>

\* Parts of C24 that hold.
\* No step removes or changes a record of self.turns: the list before the
\* step is a prefix of the list after it.
TurnsAppendOnly ==
    /\ Len(turns') >= Len(turns)
    /\ SubSeq(turns', 1, Len(turns)) = turns

\* the i-th record a call of run_fight appends has round_number i
RecordsNumbered ==
    \A i \in 1..Len(FightRecords) : FightRecords[i].round_number = i

\* run_fight returns the manager's whole list, earlier calls' records first
ReturnsWholeList ==
    pc = "returned" =>
        /\ returned = Ret(turns)
        /\ Len(FightRecords) = rounds
        /\ SubSeq(returned[1], 1, first_turn) = SubSeq(turns, 1, first_turn)

\* the list holds N records for every call that returned, and the records
\* that the calls which raised had appended before they raised
ReturnedCount ==
    /\ Len(turns) >= nreturned * rounds
    /\ (pc = "returned" /\ first_turn = (nreturned - 1) * rounds) =>
           Len(returned[1]) = nreturned * rounds

C24_HoldingParts ==
    /\ [](RecordsNumbered /\ ReturnsWholeList /\ ReturnedCount)
    /\ [][TurnsAppendOnly]_vars

\* C24 (as claimed): self.turns is append-only over the manager's lifetime, a
\* call of run_fight appends its i-th record with round_number i and returns
\* the whole accumulated list, and after k calls that returned the returned
\* list holds k * N records.
C24_TurnsAccumulate ==
    /\ [](/\ RecordsNumbered
          /\ ReturnsWholeList
          /\ pc = "returned" => Len(returned[1]) = nreturned * rounds)
    /\ [][TurnsAppendOnly]_vars

\* reached: a second call returned a list of 2 * N records
C24_TwoCallsReturned ==
    /\ pc = "returned"
    /\ nreturned = 2
    /\ rounds = 2
    /\ Len(returned[1]) = 4
    /\ returned[1][3].round_number = 1

----------------------------------------------------------------------------
(* Claims about the score-aggregating FightManager, checked under SpecAgg *)

\* C12: when run_fight of the score-aggregating manager returns, the winner
\* it declares is agent A exactly when A's cumulative score is strictly the
\* higher, agent B exactly when B's is, and the tie marker exactly when the
\* two cumulative scores are equal.
C12_WinnerIsHigherScore ==
    fight_result # Unset =>
        LET r == fight_result[1]
        IN  /\ r.winner \in {AGENT_A_NAME, AGENT_B_NAME, TIE}
            /\ r.winner = AGENT_A_NAME <=> r.agent_a_score > r.agent_b_score
            /\ r.winner = AGENT_B_NAME <=> r.agent_b_score > r.agent_a_score
            /\ r.winner = TIE <=> r.agent_a_score = r.agent_b_score
            /\ r.agent_a_score = state.agent_a_score
            /\ r.agent_b_score = state.agent_b_score
            /\ state.winner = r.winner

\* reached: a fight of two rounds that ended in a tie with both scores above
\* zero, agent A having scored in round 1 and agent B in round 2
C12_Witness ==
    /\ fight_result # Unset
    /\ num_rounds = 2
    /\ fight_result[1].winner = TIE
    /\ fight_result[1].agent_a_score > 0
    /\ state.rounds[1].score > 0
    /\ state.rounds[4].score > 0

\* the sum of the scores of the records of one agent
RECURSIVE SumOfScores(_, _)
SumOfScores(rs, name) ==
    IF rs = <<>> THEN 0
    ELSE (IF Head(rs).agent_name = name THEN Head(rs).score ELSE 0)
         + SumOfScores(Tail(rs), name)

CumulativeIsSum ==
    /\ state.agent_a_score = SumOfScores(state.rounds, AGENT_A_NAME)
    /\ state.agent_b_score = SumOfScores(state.rounds, AGENT_B_NAME)

\* C14 (as claimed): in every state of the score-aggregating manager each
\* agent's cumulative score is the sum of the scores of its records so far,
\* and the winner is unset whenever a fight's final round has not resolved
\* yet, also while a later fight runs on the same manager.
C14_ScoresAndWinner ==
    /\ CumulativeIsSum
    /\ agg_pc # "returned" => state.winner = None

\* complexity_score of each text of the fights
ComplexityOf == [t \in AgentTexts \cup HumanTexts |-> complexity_score(t)]

CoreScoreIsTextProperty ==
    \A i \in 1..Len(turns) : turns[i].complexity_score = ComplexityOf[turns[i].sql]

\* C17 (as claimed): the score stored in every turn record is
\* complexity_score of that turn's text, whether the text was executed,
\* rejected by the filter or failed in execution; stated of the records of
\* both managers.
C17_ScoreIsTextProperty ==
    /\ CoreScoreIsTextProperty
    /\ \A i \in 1..Len(state.rounds) :
           state.rounds[i].query # None =>
               state.rounds[i].score = ComplexityOf[state.rounds[i].query]

CoreSchemaIsSnapshot ==
    \A c \in 1..Len(agent_calls) : agent_calls[c].schema = schema_description

\* C20 (as claimed): every agent invocation of one fight receives the same
\* schema text, the one read when the fight started; it is not read again
\* between turns, also when the tables change meanwhile.  Stated of the
\* agent calls of both managers.
C20_SchemaIsSnapshot ==
    /\ CoreSchemaIsSnapshot
    /\ \A c, d \in 1..Len(generate_calls) :
           generate_calls[c].schema = generate_calls[d].schema

\* the round records the last call of run_fight appended to state.rounds
AggFightRecords ==
    IF nfights = 0 THEN <<>>
    ELSE SubSeq(state.rounds, (nfights - 1) * 2 * num_rounds + 1, Len(state.rounds))

\* the query of the opponent's latest successful record before record c of
\* the fight, None when the opponent has none
OpponentLastQuery(recs, c) ==
    LET S == {i \in 1..(c - 1) : i % 2 # c % 2 /\ recs[i].success}
    IN  IF S = {} THEN None
        ELSE recs[CHOOSE i \in S : \A j \in S : j <= i].query

\* a turn step changes the query kept as an agent's last move only when the
\* record it appends is that agent's and successful
PreviousQueryKept ==
    agg_pc \in {"turn_a", "turn_b"} =>
        IF state'.rounds = state.rounds
        THEN /\ previous_a_query' = previous_a_query
             /\ previous_b_query' = previous_b_query
        ELSE LET r == state'.rounds[Len(state'.rounds)]
             IN  /\ Len(state'.rounds) = Len(state.rounds) + 1
                 /\ previous_a_query' # previous_a_query =>
                        /\ r.success
                        /\ r.agent_name = AGENT_A_NAME
                        /\ previous_a_query' = r.query
                 /\ previous_b_query' # previous_b_query =>
                        /\ r.success
                        /\ r.agent_name = AGENT_B_NAME
                        /\ previous_b_query' = r.query
                 /\ ~r.success =>
                        /\ previous_a_query' = previous_a_query
                        /\ previous_b_query' = previous_b_query

\* C25: a fight of num_rounds = R appends exactly 2 * R round records, agent
\* A's before agent B's in every round, both with the round's number; every
\* unsuccessful record (generation failure, validation failure, execution
\* error) has score 0; and the query shown to the next agent as the opponent's
\* last move is the query of the opponent's latest successful turn, changing
\* only after a successful turn.
C25_RoundRecords ==
    /\ [](/\ agg_pc \in {"idle", "returned"} =>
                 Len(state.rounds) = nfights * 2 * num_rounds
          /\ agg_pc = "returned" => Len(AggFightRecords) = 2 * num_rounds
          /\ \A j \in 1..Len(AggFightRecords) :
                 /\ AggFightRecords[j].round_number = (j + 1) \div 2
                 /\ AggFightRecords[j].agent_name =
                        (IF j % 2 = 1 THEN AGENT_A_NAME ELSE AGENT_B_NAME)
          /\ \A j \in 1..Len(state.rounds) :
                 ~state.rounds[j].success => state.rounds[j].score = 0
          /\ Len(generate_calls) = Len(AggFightRecords)
          /\ \A c \in 1..Len(generate_calls) :
                 generate_calls[c].previous_query =
                     OpponentLastQuery(AggFightRecords, c))
    /\ [][PreviousQueryKept]_vars

\* reached: a returned fight of two rounds whose records are a success of
\* agent A, a generation failure, a validation failure and an execution
\* error, where agent B was shown agent A's first query in round 2
C25_Witness ==
    /\ agg_pc = "returned"
    /\ num_rounds = 2
    /\ Len(AggFightRecords) = 4
    /\ AggFightRecords[1].success /\ AggFightRecords[1].score > 0
    /\ ~AggFightRecords[2].success /\ AggFightRecords[2].query = None
    /\ ~AggFightRecords[3].success /\ AggFightRecords[3].query = SqlDrop
    /\ ~AggFightRecords[4].success /\ AggFightRecords[4].query = SqlJoin
    /\ AggFightRecords[4].error \in DbErrors
    /\ generate_calls[3].previous_query = None
    /\ generate_calls[4].previous_query = AggFightRecords[1].query
    /\ fight_result[1].rounds = state.rounds

====
